---- MODULE Spec2Model ----
(***************************************************************************)
(* Model of the stake-studio equity scenario builder.                      *)
(*                                                                         *)
(*   Index.tsx            company / safeRounds / pricingRounds / activeTab *)
(*                        and the three handlers that change them          *)
(*   OwnershipTable.tsx   ownershipData (the ownership view)               *)
(*   ExitScenario.tsx     ownershipStructure, exitCalculations and the     *)
(*                        exitValuations list (the exit view)              *)
(*                                                                         *)
(* JavaScript numbers are modelled as exact rationals extended with the    *)
(* IEEE special values: a number is a record [n, d] with                   *)
(*     d > 0, gcd(|n|, d) = 1, n # 0     a finite non-zero value n/d       *)
(*     n = 0, d = 1  /  n = 0, d = -1    +0  /  -0                         *)
(*     n = 1, d = 0  /  n = -1, d = 0    +Infinity  /  -Infinity           *)
(*     n = 0, d = 0                      NaN                               *)
(* so that division by zero, Infinity and NaN propagate as they do in the  *)
(* program. Rounding of doubles is not modelled: finite results are exact. *)
(*                                                                         *)
(* Money is counted in units of MoneyUnit dollars. Every formula of the    *)
(* program is a ratio of money amounts or a comparison between them, so    *)
(* the unit cancels; it keeps the exit valuations within TLC's integers.   *)
(* The random id given to a SAFE or a round is only a React key and is     *)
(* read by no computation; it is left out of the records.                  *)
(***************************************************************************)
EXTENDS Integers, Sequences, FiniteSets, TLC

\* ------------------------------------------------------------------------
\* Bounds of the model
\* ------------------------------------------------------------------------
MaxSafes == 2

MaxRounds == 2

\* dollars per unit of money of the model
MoneyUnit == 25 * 10000

\* ------------------------------------------------------------------------
\* JavaScript number arithmetic
\* ------------------------------------------------------------------------
Abs(i) == IF i < 0 THEN -i ELSE i

RECURSIVE Gcd(_, _)
Gcd(a, b) == IF b = 0 THEN a ELSE Gcd(b, a % b)

NaN == [n |-> 0, d |-> 0]

Infinity == [n |-> 1, d |-> 0]

NegInfinity == [n |-> -1, d |-> 0]

Zero == [n |-> 0, d |-> 1]

NegZero == [n |-> 0, d |-> -1]

\* the number n/d for integers n and d > 0
Frac(n, d) ==
  IF n = 0 THEN Zero
  ELSE LET g == Gcd(Abs(n), d) IN [n |-> n \div g, d |-> d \div g]

Num(i) == Frac(i, 1)

IsNaN(x) == x.n = 0 /\ x.d = 0

IsInf(x) == x.n # 0 /\ x.d = 0

IsZero(x) == x.n = 0 /\ x.d # 0

IsFinite(x) == x.d # 0

\* the sign bit of a number that is not NaN: 1 or -1
Sgn(x) == IF x.n > 0 THEN 1 ELSE IF x.n < 0 THEN -1 ELSE x.d

Neg(x) ==
  IF IsNaN(x) THEN NaN
  ELSE IF IsZero(x) THEN [n |-> 0, d |-> -x.d]
  ELSE [n |-> -x.n, d |-> x.d]

Mul(a, b) ==
  IF IsNaN(a) \/ IsNaN(b) THEN NaN
  ELSE IF (IsInf(a) /\ IsZero(b)) \/ (IsZero(a) /\ IsInf(b)) THEN NaN
  ELSE IF IsInf(a) \/ IsInf(b) THEN [n |-> Sgn(a) * Sgn(b), d |-> 0]
  ELSE IF IsZero(a) \/ IsZero(b) THEN [n |-> 0, d |-> Sgn(a) * Sgn(b)]
  ELSE LET g1 == Gcd(Abs(a.n), b.d)
           g2 == Gcd(Abs(b.n), a.d)
       IN [n |-> (a.n \div g1) * (b.n \div g2), d |-> (a.d \div g2) * (b.d \div g1)]

\* 1 / x
Recip(x) ==
  IF IsNaN(x) THEN NaN
  ELSE IF IsInf(x) THEN [n |-> 0, d |-> Sgn(x)]
  ELSE IF IsZero(x) THEN [n |-> Sgn(x), d |-> 0]
  ELSE [n |-> Sgn(x) * x.d, d |-> Abs(x.n)]

Div(a, b) == Mul(a, Recip(b))

Add(a, b) ==
  IF IsNaN(a) \/ IsNaN(b) THEN NaN
  ELSE IF IsInf(a) /\ IsInf(b) THEN (IF a.n = b.n THEN a ELSE NaN)
  ELSE IF IsInf(a) THEN a
  ELSE IF IsInf(b) THEN b
  ELSE IF IsZero(a) /\ IsZero(b) THEN (IF a.d = -1 /\ b.d = -1 THEN NegZero ELSE Zero)
  ELSE IF IsZero(a) THEN b
  ELSE IF IsZero(b) THEN a
  ELSE LET g == Gcd(a.d, b.d)
           l == (a.d \div g) * b.d
       IN Frac(a.n * (l \div a.d) + b.n * (l \div b.d), l)

Sub(a, b) == Add(a, Neg(b))

\* a < b
Lt(a, b) ==
  IF IsNaN(a) \/ IsNaN(b) THEN FALSE
  ELSE IF IsInf(a) \/ IsInf(b)
    THEN (IsInf(a) /\ a.n < 0 /\ ~(IsInf(b) /\ b.n < 0))
         \/ (IsInf(b) /\ b.n > 0 /\ ~(IsInf(a) /\ a.n > 0))
  ELSE a.n * Abs(b.d) < b.n * Abs(a.d)

\* a > b
Gt(a, b) == Lt(b, a)

\* a === b : NaN equals nothing, +0 equals -0
StrictEq(a, b) ==
  /\ ~IsNaN(a)
  /\ ~IsNaN(b)
  /\ (a = b \/ (IsZero(a) /\ IsZero(b)))

\* Math.min(a, b)
MathMin(a, b) ==
  IF IsNaN(a) \/ IsNaN(b) THEN NaN
  ELSE IF Lt(a, b) THEN a
  ELSE IF Lt(b, a) THEN b
  ELSE IF IsZero(a) /\ IsZero(b) THEN (IF a.d = -1 \/ b.d = -1 THEN NegZero ELSE Zero)
  ELSE a

\* the truthiness of a number: 0, -0 and NaN are falsy
Truthy(x) == ~(IsZero(x) \/ IsNaN(x))

\* ------------------------------------------------------------------------
\* Helpers on sequences
\* ------------------------------------------------------------------------
Front(s) == SubSeq(s, 1, Len(s) - 1)

\* an optional value: undefined, or Some(v)
undefined == <<>>

Some(v) == <<v>>

\* company = null
null == <<>>

\* ------------------------------------------------------------------------
\* SAFE conversion, as every view computes it
\* ------------------------------------------------------------------------
\* a conversion whose missing cap would bound the price at 0 instead of
\* leaving it unbounded
CapPriceOrZero(safe) ==
  IF safe.valuationCap # undefined /\ Truthy(safe.valuationCap[1])
  THEN safe.valuationCap[1]
  ELSE Zero

\* const capPrice = safe.valuationCap || Infinity
CapPrice(safe) ==
  IF safe.valuationCap # undefined /\ Truthy(safe.valuationCap[1])
  THEN safe.valuationCap[1]
  ELSE Infinity

\* const discountPrice = round.preMoneyValuation * (1 - safe.discount / 100)
DiscountPrice(round, safe) ==
  Mul(round.preMoneyValuation, Sub(Num(1), Div(safe.discount, Num(100))))

\* a conversion that ignores the cap
ConversionPriceOfDiscount(round, safe) == DiscountPrice(round, safe)

\* const conversionPrice = Math.min(discountPrice, capPrice)
ConversionPrice(round, safe) == MathMin(DiscountPrice(round, safe), CapPrice(safe))

\* const sharePrice = conversionPrice / totalShares
SharePrice(round, safe, totalShares) == Div(ConversionPrice(round, safe), totalShares)

\* const convertedShares = safe.amount / sharePrice
ConvertedShares(round, safe, totalShares) ==
  Div(safe.amount, SharePrice(round, safe, totalShares))

\* safeRounds.reduce((sum, safe) => sum + safe.amount, 0)
RECURSIVE SumSafeAmounts(_)
SumSafeAmounts(safes) ==
  IF safes = <<>> THEN Zero
  ELSE Add(SumSafeAmounts(Front(safes)), safes[Len(safes)].amount)

\* safeRounds.reduce((sum, safe) => sum + safe.amount / sharePrice, 0)
RECURSIVE SumConvertedShares(_, _, _)
SumConvertedShares(safes, round, totalShares) ==
  IF safes = <<>> THEN Zero
  ELSE Add(SumConvertedShares(Front(safes), round, totalShares),
           ConvertedShares(round, safes[Len(safes)], totalShares))

\* const effectivePreMoney = round.preMoneyValuation - roundSafeInvestment
EffectivePreMoney(round, safes) == Sub(round.preMoneyValuation, SumSafeAmounts(safes))

\* const pricePerShare = effectivePreMoney / totalShares
PricePerShare(round, safes, totalShares) == Div(EffectivePreMoney(round, safes), totalShares)

\* const newShares = round.investment / pricePerShare
NewShares(round, safes, totalShares) ==
  Div(round.investment, PricePerShare(round, safes, totalShares))

\* ------------------------------------------------------------------------
\* OwnershipTable.tsx : ownershipData
\* ------------------------------------------------------------------------
HasStakeholder(stakeholders, name) ==
  \E i \in 1..Len(stakeholders) : stakeholders[i].stakeholder = name

\* the loop over safeRounds inside one round: the converted shares are summed
\* for every SAFE whose converted flag is set; an entry is pushed only when no
\* stakeholder of that name is listed yet
RECURSIVE OwnSafeLoop(_, _, _, _)
OwnSafeLoop(safes, round, totalShares, stakeholders) ==
  IF safes = <<>> THEN [safeShares |-> Zero, stakeholders |-> stakeholders]
  ELSE LET prev == OwnSafeLoop(Front(safes), round, totalShares, stakeholders)
           safe == safes[Len(safes)]
           convertedShares == ConvertedShares(round, safe, totalShares)
       IN IF ~safe.converted THEN prev
          ELSE [safeShares |-> Add(prev.safeShares, convertedShares),
                stakeholders |->
                  IF HasStakeholder(prev.stakeholders, safe.investorName)
                  THEN prev.stakeholders
                  ELSE Append(prev.stakeholders,
                              [stakeholder |-> safe.investorName,
                               shares |-> convertedShares,
                               ownership |-> Zero,
                               investment |-> safe.amount,
                               type |-> "safe"])]

\* round.newInvestors.forEach(...) of the ownership view
OwnInvestorEntries(investors, pricePerShare) ==
  [i \in 1..Len(investors) |->
     [stakeholder |-> investors[i].name,
      shares |-> Div(investors[i].investment, pricePerShare),
      ownership |-> Zero,
      investment |-> investors[i].investment,
      type |-> "investor"]]

\* one iteration of pricingRounds.forEach of the ownership view
OwnRound(acc, round, safes) ==
  LET loop == OwnSafeLoop(safes, round, acc.totalShares, acc.stakeholders)
      pricePerShare == PricePerShare(round, safes, acc.totalShares)
      newShares == Div(round.investment, pricePerShare)
  IN [totalShares |-> Add(acc.totalShares, Add(loop.safeShares, newShares)),
      currentValuation |-> Add(round.preMoneyValuation, round.investment),
      stakeholders |-> loop.stakeholders \o OwnInvestorEntries(round.newInvestors, pricePerShare)]

\* the accumulator of the ownership view (totalShares, currentValuation,
\* stakeholders) before the first round and after each iteration of
\* pricingRounds.forEach: element k + 1 is its value after k rounds
RECURSIVE OwnTrace(_, _, _)
OwnTrace(company, safes, rounds) ==
  IF rounds = <<>>
  THEN << [totalShares |-> company.totalShares,
           currentValuation |-> company.initialValuation,
           stakeholders |-> << [stakeholder |-> "Founders",
                                shares |-> company.foundersShares,
                                ownership |-> Zero,
                                investment |-> Zero,
                                type |-> "founder"] >>] >>
  ELSE LET trace == OwnTrace(company, safes, Front(rounds))
       IN Append(trace, OwnRound(trace[Len(trace)], rounds[Len(rounds)], safes))

\* the state of the ownership view after all rounds, before the percentages
OwnFold(company, safes, rounds) ==
  LET trace == OwnTrace(company, safes, rounds) IN trace[Len(trace)]

\* stakeholder.ownership = (stakeholder.shares / totalShares) * 100
WithOwnership(stakeholders, totalShares) ==
  [i \in 1..Len(stakeholders) |->
     [stakeholders[i] EXCEPT !.ownership = Mul(Div(stakeholders[i].shares, totalShares), Num(100))]]

\* the running share count of the dilution tracking: every SAFE is converted
\* at every round, whatever its converted flag
RECURSIVE RunningShares(_, _, _)
RunningShares(company, safes, rounds) ==
  IF rounds = <<>> THEN company.totalShares
  ELSE LET runningShares == RunningShares(company, safes, Front(rounds))
           round == rounds[Len(rounds)]
       IN Add(runningShares,
              Add(SumConvertedShares(safes, round, runningShares),
                  NewShares(round, safes, runningShares)))

\* a trajectory that starts at the first round
dilutionDataWithoutInitial(company, safes, rounds) ==
  [k \in 1..Len(rounds) |->
     [round |-> rounds[k].name,
      founderOwnership |->
        Mul(Div(company.foundersShares,
                RunningShares(company, safes, SubSeq(rounds, 1, k))), Num(100))]]

dilutionData(company, safes, rounds) ==
  [k \in 1..(Len(rounds) + 1) |->
     IF k = 1
     THEN [round |-> "Initial",
           founderOwnership |-> Mul(Div(company.foundersShares, company.totalShares), Num(100))]
     ELSE [round |-> rounds[k - 1].name,
           founderOwnership |->
             Mul(Div(company.foundersShares,
                     RunningShares(company, safes, SubSeq(rounds, 1, k - 1))), Num(100))]]

\* the stakeholder list with its percentages, in insertion order (as it is
\* before the sort of the returned value)
OwnStakeholders(company, safes, rounds) ==
  LET acc == OwnFold(company, safes, rounds)
  IN WithOwnership(acc.stakeholders, acc.totalShares)

\* the name of a chartData entry
ChartName(type) ==
  IF type = "founder" THEN "Founders"
  ELSE IF type = "safe" THEN "SAFE Investors" ELSE "Equity Investors"

COLORS ==
  [founder |-> "hsl(var(--financial-success))",
   safe |-> "hsl(var(--financial-warning))",
   investor |-> "hsl(var(--financial-info))",
   other |-> "hsl(var(--muted-foreground))"]

\* a grouping that keeps the first stakeholder of each type
RECURSIVE ChartDataOfFirst(_)
ChartDataOfFirst(stakeholders) ==
  IF stakeholders = <<>> THEN <<>>
  ELSE LET acc == ChartDataOfFirst(Front(stakeholders))
           stakeholder == stakeholders[Len(stakeholders)]
       IN IF \E i \in 1..Len(acc) : acc[i].type = stakeholder.type
          THEN acc
          ELSE Append(acc, [name |-> ChartName(stakeholder.type),
                            value |-> stakeholder.ownership,
                            shares |-> stakeholder.shares,
                            investment |-> stakeholder.investment,
                            type |-> stakeholder.type,
                            fill |-> COLORS[stakeholder.type]])

\* stakeholders.reduce(...) of chartData: one entry for each type, in the
\* order in which the types first occur, summing ownership, shares and
\* investment of the stakeholders of the type
RECURSIVE ChartData(_)
ChartData(stakeholders) ==
  IF stakeholders = <<>> THEN <<>>
  ELSE LET acc == ChartData(Front(stakeholders))
           stakeholder == stakeholders[Len(stakeholders)]
       IN IF \E i \in 1..Len(acc) : acc[i].type = stakeholder.type
          THEN LET existing == CHOOSE i \in 1..Len(acc) :
                                 /\ acc[i].type = stakeholder.type
                                 /\ \A h \in 1..(i - 1) : acc[h].type # stakeholder.type
               IN [acc EXCEPT ![existing] =
                     [@ EXCEPT !.value = Add(@, stakeholder.ownership),
                               !.shares = Add(@, stakeholder.shares),
                               !.investment = Add(@, stakeholder.investment)]]
          ELSE Append(acc, [name |-> ChartName(stakeholder.type),
                            value |-> stakeholder.ownership,
                            shares |-> stakeholder.shares,
                            investment |-> stakeholder.investment,
                            type |-> stakeholder.type,
                            fill |-> COLORS[stakeholder.type]])

\* the place of one stakeholder in a list ordered by the comparator
\* (a, b) => b.ownership - a.ownership; a comparison that yields NaN counts
\* as 0 and elements that compare equal keep their order
RECURSIVE InsertedByOwnership(_, _)
InsertedByOwnership(sorted, stakeholder) ==
  IF sorted = <<>> THEN <<stakeholder>>
  ELSE IF Gt(Sub(stakeholder.ownership, sorted[Len(sorted)].ownership), Zero)
    THEN Append(InsertedByOwnership(Front(sorted), stakeholder), sorted[Len(sorted)])
    ELSE Append(sorted, stakeholder)

\* stakeholders.sort((a, b) => b.ownership - a.ownership)
RECURSIVE SortByOwnership(_)
SortByOwnership(stakeholders) ==
  IF stakeholders = <<>> THEN <<>>
  ELSE InsertedByOwnership(SortByOwnership(Front(stakeholders)),
                           stakeholders[Len(stakeholders)])

\* pricingRounds.reduce((sum, round) => sum + round.investment, 0)
RECURSIVE SumRoundInvestments(_)
SumRoundInvestments(rounds) ==
  IF rounds = <<>> THEN Zero
  ELSE Add(SumRoundInvestments(Front(rounds)), rounds[Len(rounds)].investment)

\* the value that the callback of useMemo returns
OwnershipData(company, safes, rounds) ==
  LET acc == OwnFold(company, safes, rounds)
      stakeholders == WithOwnership(acc.stakeholders, acc.totalShares)
  IN [stakeholders |-> SortByOwnership(stakeholders),
      chartData |-> ChartData(stakeholders),
      dilutionData |-> dilutionData(company, safes, rounds),
      totalShares |-> acc.totalShares,
      currentValuation |-> acc.currentValuation,
      totalInvestment |-> Add(SumSafeAmounts(safes), SumRoundInvestments(rounds))]

\* ------------------------------------------------------------------------
\* ExitScenario.tsx : ownershipStructure and exitCalculations
\* ------------------------------------------------------------------------
\* safeRounds.forEach(...) of the exit view: every SAFE, at every round
ExitSafeEntries(safes, round, totalShares) ==
  [j \in 1..Len(safes) |->
     [name |-> safes[j].investorName,
      shares |-> ConvertedShares(round, safes[j], totalShares),
      investment |-> safes[j].amount,
      type |-> "safe"]]

\* round.newInvestors.forEach(...) of the exit view
ExitInvestorEntries(investors, pricePerShare) ==
  [i \in 1..Len(investors) |->
     [name |-> investors[i].name,
      shares |-> Div(investors[i].investment, pricePerShare),
      investment |-> investors[i].investment,
      type |-> "investor"]]

\* one iteration of pricingRounds.forEach of the exit view
ExitRound(acc, round, safes) ==
  LET pricePerShare == PricePerShare(round, safes, acc.totalShares)
      safeShares == SumConvertedShares(safes, round, acc.totalShares)
      newShares == Div(round.investment, pricePerShare)
  IN [stakeholders |-> acc.stakeholders
                        \o ExitSafeEntries(safes, round, acc.totalShares)
                        \o ExitInvestorEntries(round.newInvestors, pricePerShare),
      totalShares |-> Add(acc.totalShares, Add(safeShares, newShares))]

\* an accumulator whose founders entry holds every share of the company
RECURSIVE ExitTraceFoundersHoldAll(_, _, _)
ExitTraceFoundersHoldAll(company, safes, rounds) ==
  IF rounds = <<>>
  THEN << [stakeholders |-> << [name |-> "Founders",
                                shares |-> company.totalShares,
                                investment |-> Zero,
                                type |-> "founder"] >>,
           totalShares |-> company.totalShares] >>
  ELSE LET trace == ExitTraceFoundersHoldAll(company, safes, Front(rounds))
       IN Append(trace, ExitRound(trace[Len(trace)], rounds[Len(rounds)], safes))

\* the accumulator of the exit view (stakeholders, totalShares) before the
\* first round and after each iteration of pricingRounds.forEach
RECURSIVE ExitTrace(_, _, _)
ExitTrace(company, safes, rounds) ==
  IF rounds = <<>>
  THEN << [stakeholders |-> << [name |-> "Founders",
                                shares |-> company.foundersShares,
                                investment |-> Zero,
                                type |-> "founder"] >>,
           totalShares |-> company.totalShares] >>
  ELSE LET trace == ExitTrace(company, safes, Front(rounds))
       IN Append(trace, ExitRound(trace[Len(trace)], rounds[Len(rounds)], safes))

ExitFold(company, safes, rounds) ==
  LET trace == ExitTrace(company, safes, rounds) IN trace[Len(trace)]

\* a projection that returns a cap table state for an empty round list too
ownershipStructureOfAnyRounds(company, safes, rounds) ==
  Some(ExitFold(company, safes, rounds))

\* null when there is no round, else { stakeholders, totalShares }
ownershipStructure(company, safes, rounds) ==
  IF Len(rounds) = 0 THEN null ELSE Some(ExitFold(company, safes, rounds))

\* inv.payout summed from 0 over the stakeholders that are not founders
RECURSIVE SumInvestorPayouts(_, _)
SumInvestorPayouts(stakeholders, pricePerShare) ==
  IF stakeholders = <<>> THEN Zero
  ELSE LET s == stakeholders[Len(stakeholders)]
           rest == SumInvestorPayouts(Front(stakeholders), pricePerShare)
       IN IF s.type = "founder" THEN rest ELSE Add(rest, Mul(s.shares, pricePerShare))

\* ownershipStructure.stakeholders.filter(s => s.type !== 'founder').map(...)
RECURSIVE InvestorPayouts(_, _)
InvestorPayouts(stakeholders, pricePerShare) ==
  IF stakeholders = <<>> THEN <<>>
  ELSE LET s == stakeholders[Len(stakeholders)]
           rest == InvestorPayouts(Front(stakeholders), pricePerShare)
           payout == Mul(s.shares, pricePerShare)
       IN IF s.type = "founder" THEN rest
          ELSE Append(rest,
                      [name |-> s.name,
                       investment |-> s.investment,
                       payout |-> payout,
                       roi |-> IF Gt(s.investment, Zero)
                               THEN Mul(Div(Sub(payout, s.investment), s.investment), Num(100))
                               ELSE Zero,
                       multiple |-> IF Gt(s.investment, Zero)
                                    THEN Div(payout, s.investment)
                                    ELSE Zero])

\* the entry of exitCalculations for one exit valuation
ExitCalculation(structure, exitVal) ==
  LET pricePerShare == Div(exitVal, structure.totalShares)
      named == {i \in 1..Len(structure.stakeholders) :
                  structure.stakeholders[i].name = "Founders"}
      founderPayout ==
        IF named = {} THEN Zero
        ELSE Mul(structure.stakeholders[CHOOSE i \in named : \A j \in named : i <= j].shares,
                 pricePerShare)
  IN [exitValuation |-> exitVal,
      founderPayout |-> founderPayout,
      founderROI |-> Zero,
      investorPayouts |-> InvestorPayouts(structure.stakeholders, pricePerShare),
      totalPayouts |-> Add(founderPayout,
                           SumInvestorPayouts(structure.stakeholders, pricePerShare))]

exitCalculations(valuations, structure) ==
  IF structure = null THEN <<>>
  ELSE [k \in 1..Len(valuations) |-> ExitCalculation(structure[1], valuations[k])]

\* ------------------------------------------------------------------------
\* PricingRound (part_000) : the preview of the round that the form holds
\* ------------------------------------------------------------------------
\* the value of the useMemo of PricingRound for a form whose preMoneyValuation
\* and investment fields are filled (it is null while one of them is empty);
\* formData holds the parsed fields, as handleSubmit passes them on
calculations(company, safes, formData) ==
  LET preMoneyVal == formData.preMoneyValuation
      totalInvestment == formData.investment
      postMoneyVal == Add(preMoneyVal, totalInvestment)
      totalSafeInvestment == SumSafeAmounts(safes)
      safeShares == IF Len(safes) > 0
                    THEN SumConvertedShares(safes, formData, company.totalShares)
                    ELSE Zero
      effectivePreMoney == IF Len(safes) > 0
                           THEN Sub(preMoneyVal, totalSafeInvestment)
                           ELSE preMoneyVal
      preMoneyPricePerShare == Div(effectivePreMoney, company.totalShares)
      newShares == Div(totalInvestment, preMoneyPricePerShare)
      totalSharesAfter == Add(Add(company.totalShares, safeShares), newShares)
  IN [preMoneyPricePerShare |-> preMoneyPricePerShare,
      newShares |-> newShares,
      safeShares |-> safeShares,
      totalSharesAfter |-> totalSharesAfter,
      postMoneyPricePerShare |-> Div(postMoneyVal, totalSharesAfter),
      postMoneyValuation |-> postMoneyVal,
      founderOwnership |-> Mul(Div(company.foundersShares, totalSharesAfter), Num(100)),
      safeOwnership |-> Mul(Div(safeShares, totalSharesAfter), Num(100)),
      newInvestorOwnership |-> Mul(Div(newShares, totalSharesAfter), Num(100))]

\* ------------------------------------------------------------------------
\* Index.tsx : the state of the scenario and its handlers
\* ------------------------------------------------------------------------
\* company, safeRounds, pricingRounds, activeTab: the four useState values of
\* Index. exitValuations: the useState value of ExitScenario. ownershipData:
\* the value held by the useMemo of OwnershipTable, null while no run of its
\* callback has produced one for the current props. pendingUpdates: the
\* updates that setSafeRounds and setPricingRounds have queued and that the
\* next render applies, one queue per state hook, in call order, the
\* handler calls that queued them, in call order, and the number of calls
\* whose updates the last render applied.
VARIABLES company, safeRounds, pricingRounds, activeTab, exitValuations,
          ownershipData, pendingUpdates

vars == <<company, safeRounds, pricingRounds, activeTab, exitValuations,
          ownershipData, pendingUpdates>>

\* no updater is queued
NoUpdates == [safeRounds |-> <<>>, pricingRounds |-> <<>>, calls |-> <<>>, applied |-> 0]

\* What the forms can submit. The number inputs have no lower bound (only the
\* SAFE discount has min 0 and max 50), so zero and negative values are
\* submitted as they are typed.
CompanyShares == {<<2, 2>>, <<1, 2>>, <<3, -2>>}

CompanyInputs ==
  {[name |-> "Acme",
    foundersShares |-> Num(p[1]),
    totalShares |-> Num(p[2]),
    initialValuation |-> Num(4)] : p \in CompanyShares}

SafeInputs ==
  {[investorName |-> "Angel", amount |-> Num(1), discount |-> Num(0), valuationCap |-> undefined],
   [investorName |-> "Angel", amount |-> Num(1), discount |-> Num(50), valuationCap |-> Some(Num(1))],
   [investorName |-> "Seed", amount |-> Num(2), discount |-> Num(20), valuationCap |-> undefined],
   [investorName |-> "VC", amount |-> Num(-1), discount |-> Num(20), valuationCap |-> Some(Num(0))]}

RoundInputs ==
  {[name |-> "Series A", preMoneyValuation |-> Num(4), investment |-> Num(2),
    newInvestors |-> << [name |-> "VC", investment |-> Num(2)] >>],
   [name |-> "Series B", preMoneyValuation |-> Num(1), investment |-> Num(3),
    newInvestors |-> << [name |-> "VC", investment |-> Num(1)],
                        [name |-> "Angel", investment |-> Num(1)] >>],
   [name |-> "Series C", preMoneyValuation |-> Num(0), investment |-> Num(1),
    newInvestors |-> << >>]}

Tabs == {"safe", "pricing", "ownership", "exit"}

\* useState([10000000, 50000000, 100000000, 500000000])
InitialExitValuations ==
  << Num(10000000 \div MoneyUnit), Num(50000000 \div MoneyUnit),
     Num(100000000 \div MoneyUnit), Num(500000000 \div MoneyUnit) >>

Init ==
  /\ company = null
  /\ safeRounds = <<>>
  /\ pricingRounds = <<>>
  /\ activeTab = "setup"
  /\ exitValuations = InitialExitValuations
  /\ ownershipData = null
  /\ pendingUpdates = NoUpdates

\* a setup handler that can be called again for a company that exists
handleCompanySetupAgain(companyData) ==
  /\ company' = Some(companyData)
  /\ activeTab' = "safe"
  /\ ownershipData' = null
  /\ UNCHANGED <<safeRounds, pricingRounds, exitValuations, pendingUpdates>>

\* CompanySetup is rendered only while company is null
handleCompanySetup(companyData) ==
  /\ company = null
  /\ company' = Some(companyData)
  /\ activeTab' = "safe"
  /\ ownershipData' = null
  /\ UNCHANGED <<safeRounds, pricingRounds, exitValuations, pendingUpdates>>

\* a handler that stores the new SAFE in place of the list
handleSafeRoundReplacingList(safeData) ==
  /\ company # null
  /\ activeTab = "safe"
  /\ Len(safeRounds) < MaxSafes
  /\ safeRounds' = << [investorName |-> safeData.investorName,
                       amount |-> safeData.amount,
                       discount |-> safeData.discount,
                       valuationCap |-> safeData.valuationCap,
                       converted |-> FALSE] >>
  /\ ownershipData' = null
  /\ UNCHANGED <<company, pricingRounds, activeTab, exitValuations, pendingUpdates>>

\* the SAFE form is rendered in the "safe" tab of a company
handleSafeRound(safeData) ==
  /\ company # null
  /\ activeTab = "safe"
  /\ Len(safeRounds) < MaxSafes
  /\ safeRounds' = Append(safeRounds,
                          [investorName |-> safeData.investorName,
                           amount |-> safeData.amount,
                           discount |-> safeData.discount,
                           valuationCap |-> safeData.valuationCap,
                           converted |-> FALSE])
  /\ ownershipData' = null
  /\ UNCHANGED <<company, pricingRounds, activeTab, exitValuations, pendingUpdates>>

\* a handler that puts the new round in front of the list
handlePricingRoundAtFront(roundData) ==
  /\ company # null
  /\ activeTab = "pricing"
  /\ Len(pricingRounds) < MaxRounds
  /\ pricingRounds' = <<roundData>> \o pricingRounds
  /\ safeRounds' = [i \in 1..Len(safeRounds) |-> [safeRounds[i] EXCEPT !.converted = TRUE]]
  /\ ownershipData' = null
  /\ UNCHANGED <<company, activeTab, exitValuations, pendingUpdates>>

\* a handler that appends the round and leaves the SAFEs as they are
handlePricingRoundKeepingFlags(roundData) ==
  /\ company # null
  /\ activeTab = "pricing"
  /\ Len(pricingRounds) < MaxRounds
  /\ pricingRounds' = Append(pricingRounds, roundData)
  /\ ownershipData' = null
  /\ UNCHANGED <<company, safeRounds, activeTab, exitValuations, pendingUpdates>>

\* the round form is rendered in the "pricing" tab of a company
handlePricingRound(roundData) ==
  /\ company # null
  /\ activeTab = "pricing"
  /\ Len(pricingRounds) < MaxRounds
  /\ pricingRounds' = Append(pricingRounds, roundData)
  /\ safeRounds' = [i \in 1..Len(safeRounds) |-> [safeRounds[i] EXCEPT !.converted = TRUE]]
  /\ ownershipData' = null
  /\ UNCHANGED <<company, activeTab, exitValuations, pendingUpdates>>

\* <Tabs value={activeTab} onValueChange={setActiveTab}>. exitValuations is
\* state of the ExitScenario component inside <TabsContent value="exit">:
\* whether the tabs component keeps the content of an inactive tab mounted
\* is not in this repository, so a tab change either keeps the list or
\* leaves the list of a newly mounted ExitScenario; the same holds for the
\* value that the useMemo of OwnershipTable holds
setActiveTab(tab) ==
  /\ company # null
  /\ tab # activeTab
  /\ activeTab' = tab
  /\ exitValuations' \in {exitValuations, InitialExitValuations}
  /\ ownershipData' \in {ownershipData, null}
  /\ UNCHANGED <<company, safeRounds, pricingRounds, pendingUpdates>>

\* one queued update applied to the value of its state hook: the updater
\* prev => [...prev, value], the updater prev => prev.map(safe =>
\* ({ ...safe, converted: true })), or a value passed in place of an updater
ApplyUpdate(prev, update) ==
  CASE update.kind = "append" -> Append(prev, update.value)
    [] update.kind = "markConverted" ->
         [i \in 1..Len(prev) |-> [prev[i] EXCEPT !.converted = TRUE]]
    [] update.kind = "value" -> update.value

\* the queue of a state hook applied in call order
RECURSIVE ApplyUpdates(_, _)
ApplyUpdates(prev, queue) ==
  IF queue = <<>> THEN prev
  ELSE ApplyUpdates(ApplyUpdate(prev, Head(queue)), Tail(queue))

\* the calls of one handler since the last render
CallsOf(handler) ==
  Cardinality({i \in 1..Len(pendingUpdates.calls) : pendingUpdates.calls[i].handler = handler})

\* const newSafe = { ...safeData, id, converted: false }
NewSafe(safeData) ==
  [investorName |-> safeData.investorName,
   amount |-> safeData.amount,
   discount |-> safeData.discount,
   valuationCap |-> safeData.valuationCap,
   converted |-> FALSE]

\* a call that passes the list of its closure with the new SAFE appended
callHandleSafeRoundWithValue(safeData) ==
  /\ company # null
  /\ Len(safeRounds) + CallsOf("handleSafeRound") < MaxSafes
  /\ pendingUpdates' =
       [pendingUpdates EXCEPT
          !.safeRounds = Append(@, [kind |-> "value",
                                    value |-> Append(safeRounds, NewSafe(safeData))]),
          !.calls = Append(@, [handler |-> "handleSafeRound", data |-> safeData])]
  /\ UNCHANGED <<company, safeRounds, pricingRounds, activeTab, exitValuations, ownershipData>>

\* a call of handleSafeRound whose update waits for the next render
callHandleSafeRound(safeData) ==
  /\ company # null
  /\ Len(safeRounds) + CallsOf("handleSafeRound") < MaxSafes
  /\ pendingUpdates' =
       [pendingUpdates EXCEPT
          !.safeRounds = Append(@, [kind |-> "append", value |-> NewSafe(safeData)]),
          !.calls = Append(@, [handler |-> "handleSafeRound", data |-> safeData])]
  /\ UNCHANGED <<company, safeRounds, pricingRounds, activeTab, exitValuations, ownershipData>>

\* a call of handlePricingRound whose two updates wait for the next render
callHandlePricingRound(roundData) ==
  /\ company # null
  /\ Len(pricingRounds) + CallsOf("handlePricingRound") < MaxRounds
  /\ pendingUpdates' =
       [pendingUpdates EXCEPT
          !.pricingRounds = Append(@, [kind |-> "append", value |-> roundData]),
          !.safeRounds = Append(@, [kind |-> "markConverted"]),
          !.calls = Append(@, [handler |-> "handlePricingRound", data |-> roundData])]
  /\ UNCHANGED <<company, safeRounds, pricingRounds, activeTab, exitValuations, ownershipData>>

\* the render that follows queued updates: every queue is applied to the
\* value of its hook, and the views get the new lists
render ==
  /\ pendingUpdates.calls # <<>>
  /\ safeRounds' = ApplyUpdates(safeRounds, pendingUpdates.safeRounds)
  /\ pricingRounds' = ApplyUpdates(pricingRounds, pendingUpdates.pricingRounds)
  /\ pendingUpdates' = [NoUpdates EXCEPT !.applied = Len(pendingUpdates.calls)]
  /\ ownershipData' = null
  /\ UNCHANGED <<company, activeTab, exitValuations>>

\* a run of the useMemo callback that marks the SAFEs it converts
computeOwnershipDataMarkingSafes ==
  /\ company # null
  /\ activeTab = "ownership"
  /\ ownershipData' = Some(OwnershipData(company[1], safeRounds, pricingRounds))
  /\ safeRounds' = [i \in 1..Len(safeRounds) |-> [safeRounds[i] EXCEPT !.converted = TRUE]]
  /\ UNCHANGED <<company, pricingRounds, activeTab, exitValuations, pendingUpdates>>

\* a run of the useMemo callback of OwnershipTable, which is rendered in the
\* "ownership" tab: it reads its props and writes none of them
computeOwnershipData ==
  /\ company # null
  /\ activeTab = "ownership"
  /\ ownershipData' = Some(OwnershipData(company[1], safeRounds, pricingRounds))
  /\ UNCHANGED <<company, safeRounds, pricingRounds, activeTab, exitValuations, pendingUpdates>>

\* the values of the badges that exitValuations.map renders
ValuesOf(valuations) == {valuations[i] : i \in 1..Len(valuations)}

\* exitValuations.includes(value)
Includes(valuations, value) ==
  \E i \in 1..Len(valuations) : StrictEq(valuations[i], value)

\* the place of value in a list ordered by the comparator (a, b) => a - b
RECURSIVE Inserted(_, _)
Inserted(sorted, value) ==
  IF sorted = <<>> THEN <<value>>
  ELSE IF Gt(Sub(sorted[Len(sorted)], value), Zero)
    THEN Append(Inserted(Front(sorted), value), sorted[Len(sorted)])
    ELSE Append(sorted, value)

\* a list left in the order of its elements
Unsorted(valuations) == valuations

\* valuations.sort((a, b) => a - b)
RECURSIVE SortAscending(_)
SortAscending(valuations) ==
  IF valuations = <<>> THEN <<>>
  ELSE Inserted(SortAscending(Front(valuations)), valuations[Len(valuations)])

\* the values typed into the custom valuation field: one of the initial
\* list, one between two of its values, one below all of them
CustomValuationInputs ==
  {Num(10000000 \div MoneyUnit), Num(25000000 \div MoneyUnit), Zero}

\* the "Add Scenario" button of the exit tab, rendered once there is a round
\* and enabled while the field is not empty
addCustomValuation(customValuation) ==
  /\ company # null
  /\ activeTab = "exit"
  /\ Len(pricingRounds) > 0
  /\ exitValuations' = IF ~Includes(exitValuations, customValuation)
                        THEN SortAscending(Append(exitValuations, customValuation))
                        ELSE exitValuations
  /\ UNCHANGED <<company, safeRounds, pricingRounds, activeTab, ownershipData, pendingUpdates>>

\* a click on the badge of a valuation of the list
removeValuation(valuation) ==
  /\ company # null
  /\ activeTab = "exit"
  /\ Len(pricingRounds) > 0
  /\ Includes(exitValuations, valuation)
  /\ exitValuations' = SelectSeq(exitValuations, LAMBDA v : ~StrictEq(v, valuation))
  /\ UNCHANGED <<company, safeRounds, pricingRounds, activeTab, ownershipData, pendingUpdates>>

Next ==
  \/ \E companyData \in CompanyInputs : handleCompanySetup(companyData)
  \/ \E safeData \in SafeInputs : handleSafeRound(safeData)
  \/ \E roundData \in RoundInputs : handlePricingRound(roundData)
  \/ \E tab \in Tabs : setActiveTab(tab)

Spec == Init /\ [][Next]_vars

\* the SAFEs of SafeInputs with a positive amount
PositiveSafeInputs == {safeData \in SafeInputs : Gt(safeData.amount, Zero)}

\* the handlers of Index together with the runs of the useMemo callback
NextOwnership ==
  \/ \E companyData \in CompanyInputs : handleCompanySetup(companyData)
  \/ \E safeData \in PositiveSafeInputs : handleSafeRound(safeData)
  \/ \E roundData \in RoundInputs : handlePricingRound(roundData)
  \/ \E tab \in Tabs : setActiveTab(tab)
  \/ computeOwnershipData

SpecOwnership == Init /\ [][NextOwnership]_vars

\* ------------------------------------------------------------------------
\* The two views of the current state
\* ------------------------------------------------------------------------
theCompany == company[1]

\* <OwnershipTable> is rendered in the "ownership" tab and shows its numbers
\* only when there is a round
OwnShown == company # null /\ activeTab = "ownership" /\ Len(pricingRounds) > 0

\* <ExitScenario> is rendered in the "exit" tab; ownershipStructure is null
\* when there is no round
ExitShown == company # null /\ activeTab = "exit" /\ Len(pricingRounds) > 0

OwnNow == OwnFold(theCompany, safeRounds, pricingRounds)

ExitNow == ExitFold(theCompany, safeRounds, pricingRounds)

RoundIndexes == 1..Len(pricingRounds)

SafeIndexes == 1..Len(safeRounds)

\* the views after the first k rounds, k = 0 .. Len(pricingRounds): the loops
\* of both views are folds over pricingRounds, so these are their states
\* after k iterations
OwnSteps ==
  LET trace == OwnTrace(theCompany, safeRounds, pricingRounds)
  IN [k \in 0..Len(pricingRounds) |-> trace[k + 1]]

ExitSteps ==
  LET trace == ExitTrace(theCompany, safeRounds, pricingRounds)
  IN [k \in 0..Len(pricingRounds) |-> trace[k + 1]]

\* the entries a view pushes at round k, given its steps
EntriesOfRound(steps, k) ==
  SubSeq(steps[k].stakeholders, Len(steps[k - 1].stakeholders) + 1, Len(steps[k].stakeholders))

FilterType(stakeholders, type) ==
  LET idx == {i \in 1..Len(stakeholders) : stakeholders[i].type = type}
  IN [i \in idx |-> stakeholders[i]]

CountType(stakeholders, type) ==
  Cardinality({i \in 1..Len(stakeholders) : stakeholders[i].type = type})

RECURSIVE SumShares(_)
SumShares(stakeholders) ==
  IF stakeholders = <<>> THEN Zero
  ELSE Add(SumShares(Front(stakeholders)), stakeholders[Len(stakeholders)].shares)

RECURSIVE SumSharesOfType(_, _)
SumSharesOfType(stakeholders, type) ==
  IF stakeholders = <<>> THEN Zero
  ELSE LET s == stakeholders[Len(stakeholders)]
           rest == SumSharesOfType(Front(stakeholders), type)
       IN IF s.type = type THEN Add(rest, s.shares) ELSE rest

\* a <= b
Le(a, b) == Lt(a, b) \/ StrictEq(a, b)

ConvertedSafes == {j \in SafeIndexes : safeRounds[j].converted}

\* ------------------------------------------------------------------------
\* Inputs that satisfy the data model of the specification
\* ------------------------------------------------------------------------
ValidCompany(c) ==
  /\ Gt(c.foundersShares, Zero)
  /\ Le(c.foundersShares, c.totalShares)
  /\ Gt(c.initialValuation, Zero)

ValidSafe(s) ==
  /\ Gt(s.amount, Zero)
  /\ Le(Zero, s.discount)
  /\ Le(s.discount, Num(100))
  /\ s.valuationCap # undefined => Gt(s.valuationCap[1], Zero)

ValidRound(r) ==
  /\ Gt(r.preMoneyValuation, Zero)
  /\ Gt(r.investment, Zero)
  /\ \A i \in 1..Len(r.newInvestors) : Gt(r.newInvestors[i].investment, Zero)

ValidInputsOf(comp, safes, rounds) ==
  /\ comp # null
  /\ ValidCompany(comp[1])
  /\ \A j \in 1..Len(safes) : ValidSafe(safes[j])
  /\ \A k \in 1..Len(rounds) : ValidRound(rounds[k])

ValidInputs == ValidInputsOf(company, safeRounds, pricingRounds)

\* ------------------------------------------------------------------------
\* C1 : the share counts of the stakeholder entries of a snapshot add up to
\* its totalSharesOutstanding, in the ownership view and in the exit view.
\* Stated for valid inputs, a company whose founders hold all its shares and
\* rounds whose investment is the sum of their investors' amounts.
\* ------------------------------------------------------------------------
RECURSIVE SumInvestments(_)
SumInvestments(investors) ==
  IF investors = <<>> THEN Zero
  ELSE Add(SumInvestments(Front(investors)), investors[Len(investors)].investment)

FoundersHoldAll == StrictEq(theCompany.foundersShares, theCompany.totalShares)

InvestmentsMatch ==
  \A k \in RoundIndexes :
    StrictEq(pricingRounds[k].investment, SumInvestments(pricingRounds[k].newInvestors))

C1_SharesSumToTotal ==
  /\ (OwnShown /\ ValidInputs /\ FoundersHoldAll /\ InvestmentsMatch) =>
       LET view == OwnNow IN StrictEq(SumShares(view.stakeholders), view.totalShares)
  /\ (ExitShown /\ ValidInputs /\ FoundersHoldAll /\ InvestmentsMatch) =>
       LET view == ExitNow IN StrictEq(SumShares(view.stakeholders), view.totalShares)

\* ------------------------------------------------------------------------
\* C2 : a SAFE converts at most once. The exit view holds one SAFE entry for
\* each SAFE that a round has converted and none for any other; and, each
\* SAFE adding shares at one round only, the rounds at which a view adds
\* SAFE shares to totalShares are no more than the converted SAFEs.
\* ------------------------------------------------------------------------
OwnRoundsAddingSafeShares(steps) ==
  {k \in RoundIndexes :
     ~IsZero(OwnSafeLoop(safeRounds, pricingRounds[k], steps[k - 1].totalShares,
                         steps[k - 1].stakeholders).safeShares)}

ExitRoundsAddingSafeShares(steps) ==
  {k \in RoundIndexes :
     ~IsZero(SumConvertedShares(safeRounds, pricingRounds[k], steps[k - 1].totalShares))}

C2_SafeConvertsOnce ==
  /\ (OwnShown /\ ValidInputs) =>
       Cardinality(OwnRoundsAddingSafeShares(OwnSteps)) <= Cardinality(ConvertedSafes)
  /\ (ExitShown /\ ValidInputs) =>
       /\ CountType(ExitNow.stakeholders, "safe") = Cardinality(ConvertedSafes)
       /\ Cardinality(ExitRoundsAddingSafeShares(ExitSteps)) <= Cardinality(ConvertedSafes)

\* ------------------------------------------------------------------------
\* C3 : adding a SAFE when a round already exists leaves the snapshot of the
\* processed rounds unchanged (total, stakeholders, dilution trajectory), in
\* both views.
\* ------------------------------------------------------------------------
C3_LateSafeChangesNothing ==
  [][(/\ Len(pricingRounds) > 0
      /\ Len(safeRounds') = Len(safeRounds) + 1
      /\ ValidInputsOf(company, safeRounds', pricingRounds))
       => /\ OwnFold(theCompany, safeRounds', pricingRounds)
               = OwnFold(theCompany, safeRounds, pricingRounds)
          /\ ExitFold(theCompany, safeRounds', pricingRounds)
               = ExitFold(theCompany, safeRounds, pricingRounds)
          /\ dilutionData(theCompany, safeRounds', pricingRounds)
               = dilutionData(theCompany, safeRounds, pricingRounds)]_vars

\* ------------------------------------------------------------------------
\* C4 : adding a round while an outstanding SAFE has an amount greater than
\* or equal to the round's preMoneyValuation is rejected: the round list and
\* the converted flags stay as they were.
\* ------------------------------------------------------------------------
C4_InvalidRoundRejected ==
  [][\A roundData \in RoundInputs :
       (/\ handlePricingRound(roundData)
        /\ ValidInputsOf(company, safeRounds, Append(pricingRounds, roundData))
        /\ \E j \in SafeIndexes :
             /\ ~safeRounds[j].converted
             /\ Le(roundData.preMoneyValuation, safeRounds[j].amount))
         => UNCHANGED <<pricingRounds, safeRounds>>]_vars

\* ------------------------------------------------------------------------
\* C5 : no snapshot holds a SAFE conversion made at a conversion price per
\* share that is <= 0, nor a SAFE entry whose share count is infinite or
\* negative. Stated for a valid company and valid SAFEs.
\* ------------------------------------------------------------------------
ValidCompanyAndSafes ==
  /\ company # null
  /\ ValidCompany(theCompany)
  /\ \A j \in SafeIndexes : ValidSafe(safeRounds[j])

C5_NoNonPositiveConversion ==
  /\ (ExitShown /\ ValidCompanyAndSafes) =>
       LET steps == ExitSteps
       IN \A k \in RoundIndexes : \A j \in SafeIndexes :
            LET entry == EntriesOfRound(steps, k)[j]
            IN /\ ~Le(SharePrice(pricingRounds[k], safeRounds[j], steps[k - 1].totalShares),
                      Zero)
               /\ IsFinite(entry.shares)
               /\ ~Lt(entry.shares, Zero)
  /\ (OwnShown /\ ValidCompanyAndSafes) =>
       LET view == OwnNow
       IN \A i \in 1..Len(view.stakeholders) :
            view.stakeholders[i].type = "safe" =>
              /\ IsFinite(view.stakeholders[i].shares)
              /\ ~Lt(view.stakeholders[i].shares, Zero)

\* ------------------------------------------------------------------------
\* C6 : every SAFE converted at a round receives
\*   amount / min(preMoneyValuation / totalSharesBefore * (1 - discount/100),
\*                valuationCap / totalSharesBefore)
\* shares, totalSharesBefore being the share count before that round.
\* Stated for a valid company and valid rounds.
\* ------------------------------------------------------------------------
ValidCompanyAndRounds ==
  /\ company # null
  /\ ValidCompany(theCompany)
  /\ \A k \in RoundIndexes : ValidRound(pricingRounds[k])

DiscountPricePerShare(round, safe, totalSharesBefore) ==
  Mul(Div(round.preMoneyValuation, totalSharesBefore),
      Sub(Num(1), Div(safe.discount, Num(100))))

CapPricePerShare(safe, totalSharesBefore) ==
  IF safe.valuationCap = undefined THEN Infinity
  ELSE Div(safe.valuationCap[1], totalSharesBefore)

C6_ConversionAtMinOfPrices ==
  (ExitShown /\ ValidCompanyAndRounds) =>
    LET steps == ExitSteps
    IN \A k \in RoundIndexes : \A j \in SafeIndexes :
         LET round == pricingRounds[k]
             safe == safeRounds[j]
             before == steps[k - 1].totalShares
         IN EntriesOfRound(steps, k)[j].shares
              = Div(safe.amount,
                    MathMin(DiscountPricePerShare(round, safe, before),
                            CapPricePerShare(safe, before)))

\* ------------------------------------------------------------------------
\* C7 : a SAFE without a valuation cap converts at the discount price, and
\* one without cap and with discount 0 at the round's raw pre-money price
\* per share: it receives amount * totalSharesBefore / preMoneyValuation.
\* In the exit view this is every SAFE entry of every round; in the
\* ownership view it is the entry of the first converted SAFE of each name,
\* pushed at the first round on the company's totalShares.
\* ------------------------------------------------------------------------
NoCapShares(shares, round, safe, before) ==
  /\ shares = Div(safe.amount, DiscountPricePerShare(round, safe, before))
  /\ IsZero(safe.discount) =>
       shares = Div(Mul(safe.amount, before), round.preMoneyValuation)

C7_NoCapConvertsAtDiscount ==
  /\ ExitShown =>
       LET steps == ExitSteps
       IN \A k \in RoundIndexes : \A j \in SafeIndexes :
            safeRounds[j].valuationCap = undefined =>
              NoCapShares(EntriesOfRound(steps, k)[j].shares, pricingRounds[k],
                          safeRounds[j], steps[k - 1].totalShares)
  /\ OwnShown =>
       LET view == OwnNow
       IN \A i \in 1..Len(view.stakeholders) :
            view.stakeholders[i].type = "safe" =>
              LET first == CHOOSE j \in ConvertedSafes :
                             /\ safeRounds[j].investorName = view.stakeholders[i].stakeholder
                             /\ \A h \in ConvertedSafes :
                                  safeRounds[h].investorName = safeRounds[j].investorName
                                    => j <= h
              IN safeRounds[first].valuationCap = undefined =>
                   NoCapShares(view.stakeholders[i].shares, pricingRounds[1],
                               safeRounds[first], theCompany.totalShares)

\* a SAFE without cap and without discount has been converted at a second
\* round, on a share count that the first round has changed, and the
\* ownership view lists a SAFE without cap
C7_Witness ==
  /\ ExitShown
  /\ Len(pricingRounds) = 2
  /\ LET steps == ExitSteps
     IN /\ steps[1].totalShares # steps[0].totalShares
        /\ \E j \in SafeIndexes :
             /\ safeRounds[j].valuationCap = undefined
             /\ IsZero(safeRounds[j].discount)
             /\ IsFinite(EntriesOfRound(steps, 2)[j].shares)
             /\ Gt(EntriesOfRound(steps, 2)[j].shares, Zero)
        /\ \E j \in SafeIndexes :
             /\ safeRounds[j].valuationCap = undefined
             /\ ~IsZero(safeRounds[j].discount)
             /\ IsFinite(EntriesOfRound(steps, 2)[j].shares)
             /\ Gt(EntriesOfRound(steps, 2)[j].shares, Zero)
  /\ \E i \in 1..Len(OwnNow.stakeholders) : OwnNow.stakeholders[i].type = "safe"

\* ------------------------------------------------------------------------
\* C8 : processing a round adds to totalSharesOutstanding the shares of the
\* SAFEs converted at that round and the shares issued to the round's
\* investors, each investor receiving investment / (effectivePreMoney /
\* totalSharesBefore), whatever the round's investment field says.
\* ------------------------------------------------------------------------
RoundAddsItsEntries(steps, k) ==
  LET entries == EntriesOfRound(steps, k)
  IN StrictEq(steps[k].totalShares,
              Add(steps[k - 1].totalShares,
                  Add(SumSharesOfType(entries, "safe"), SumSharesOfType(entries, "investor"))))

C8_TotalAfterRound ==
  /\ (ExitShown /\ ValidInputs) =>
       LET steps == ExitSteps
       IN \A k \in RoundIndexes :
            LET investors == FilterType(EntriesOfRound(steps, k), "investor")
                pricePerShare == Div(EffectivePreMoney(pricingRounds[k], safeRounds),
                                     steps[k - 1].totalShares)
            IN /\ \A i \in DOMAIN investors :
                    investors[i].shares = Div(investors[i].investment, pricePerShare)
               /\ RoundAddsItsEntries(steps, k)
  /\ (OwnShown /\ ValidInputs) =>
       LET steps == OwnSteps
       IN \A k \in RoundIndexes : RoundAddsItsEntries(steps, k)

\* ------------------------------------------------------------------------
\* C9 : for every exit valuation V > 0 of the exit view, totalPayouts (the
\* founder payout plus the payouts of all other stakeholders) equals V.
\* Stated for valid inputs and a company whose founders hold all its shares.
\* ------------------------------------------------------------------------
C9_PayoutsSumToValuation ==
  (ExitShown /\ ValidInputs /\ FoundersHoldAll) =>
    LET calcs == exitCalculations(exitValuations,
                                  ownershipStructure(theCompany, safeRounds, pricingRounds))
    IN \A c \in DOMAIN calcs :
         Gt(calcs[c].exitValuation, Zero) =>
           StrictEq(calcs[c].totalPayouts, calcs[c].exitValuation)

\* ------------------------------------------------------------------------
\* C10 : totalSharesOutstanding strictly increases with every processed
\* round, in both views. Stated for valid inputs.
\* ------------------------------------------------------------------------
C10_TotalStrictlyIncreases ==
  /\ (OwnShown /\ ValidInputs) =>
       LET steps == OwnSteps
       IN \A k \in RoundIndexes : Gt(steps[k].totalShares, steps[k - 1].totalShares)
  /\ (ExitShown /\ ValidInputs) =>
       LET steps == ExitSteps
       IN \A k \in RoundIndexes : Gt(steps[k].totalShares, steps[k - 1].totalShares)

\* ------------------------------------------------------------------------
\* C11 : for the same company, SAFE list and non-empty round list the
\* ownership view and the exit view give the same totalSharesOutstanding
\* and the same multiset of (name, shares, invested capital, category)
\* entries. Stated for valid inputs.
\* ------------------------------------------------------------------------
OwnEntries(stakeholders) ==
  [i \in 1..Len(stakeholders) |->
     <<stakeholders[i].stakeholder, stakeholders[i].shares,
       stakeholders[i].investment, stakeholders[i].type>>]

ExitEntries(stakeholders) ==
  [i \in 1..Len(stakeholders) |->
     <<stakeholders[i].name, stakeholders[i].shares,
       stakeholders[i].investment, stakeholders[i].type>>]

Occurrences(s, e) == Cardinality({i \in 1..Len(s) : s[i] = e})

SameMultiset(s, t) ==
  /\ Len(s) = Len(t)
  /\ \A i \in 1..Len(s) : Occurrences(s, s[i]) = Occurrences(t, s[i])

C11_ViewsAgree ==
  ((OwnShown \/ ExitShown) /\ ValidInputs) =>
    LET own == OwnNow
        exit == ExitNow
    IN /\ own.totalShares = exit.totalShares
       /\ SameMultiset(OwnEntries(own.stakeholders), ExitEntries(exit.stakeholders))

\* ------------------------------------------------------------------------
\* What the two components render
\* ------------------------------------------------------------------------
\* the card rendered by OwnershipTable when pricingRounds is empty
NoPricingRoundsYet == "No Pricing Rounds Yet"

\* the card rendered by ExitScenario when ownershipStructure is null
NoExitScenariosAvailable == "No Exit Scenarios Available"

\* the stakeholders of a list as a multiset: the number of times each entry
\* occurs. The order in which they are displayed is left out.
EntryCounts(entries) ==
  [e \in {entries[i] : i \in 1..Len(entries)} |-> Occurrences(entries, e)]

\* OwnershipTable: ownershipData is computed by useMemo on every render, but
\* when there is no round the component returns the card and displays no
\* part of it
OwnershipTable(comp, safes, rounds) ==
  IF Len(rounds) = 0 THEN NoPricingRoundsYet
  ELSE LET acc == OwnFold(comp, safes, rounds)
       IN [stakeholders |-> EntryCounts(WithOwnership(acc.stakeholders, acc.totalShares)),
           totalShares |-> acc.totalShares,
           currentValuation |-> acc.currentValuation,
           dilutionData |-> dilutionData(comp, safes, rounds)]

\* ExitScenario: the card when ownershipStructure is null, else one payout
\* breakdown for each exit valuation
ExitScenario(comp, safes, rounds, valuations) ==
  LET structure == ownershipStructure(comp, safes, rounds)
  IN IF structure = null THEN NoExitScenariosAvailable
     ELSE exitCalculations(valuations, structure)

\* ------------------------------------------------------------------------
\* C12 : while the round list is empty the ownership view shows the
\* no-rounds card and no stakeholder list, totals or dilution trajectory,
\* and the exit view has no ownership structure and no payout breakdown,
\* whatever the company and the SAFE list.
\* ------------------------------------------------------------------------
C12_NoRoundsNotComputable ==
  (company # null /\ activeTab \in {"ownership", "exit"} /\ pricingRounds = <<>>) =>
    /\ OwnershipTable(theCompany, safeRounds, pricingRounds) = NoPricingRoundsYet
    /\ ownershipStructure(theCompany, safeRounds, pricingRounds) = null
    /\ exitCalculations(exitValuations,
                        ownershipStructure(theCompany, safeRounds, pricingRounds)) = <<>>
    /\ ExitScenario(theCompany, safeRounds, pricingRounds, exitValuations)
         = NoExitScenariosAvailable

\* the exit tab is open on a company with two SAFEs and no round
C12_Witness ==
  /\ company # null
  /\ activeTab = "exit"
  /\ pricingRounds = <<>>
  /\ Len(safeRounds) = 2

\* ------------------------------------------------------------------------
\* C13 : in the exit projection every stakeholder with invested capital > 0
\* has multiple = payout / investedCapital and
\* roi = 100 * (payout - investedCapital) / investedCapital, and the
\* founders, who have no invested capital, have an ROI that is reported as
\* undefined, never as the number 0. Stated for valid inputs.
\* ------------------------------------------------------------------------
C13_MultipleAndRoi ==
  (ExitShown /\ ValidInputs) =>
    LET calcs == exitCalculations(exitValuations,
                                  ownershipStructure(theCompany, safeRounds, pricingRounds))
    IN \A c \in DOMAIN calcs :
         /\ \A i \in DOMAIN calcs[c].investorPayouts :
              LET inv == calcs[c].investorPayouts[i]
              IN Gt(inv.investment, Zero) =>
                   /\ inv.multiple = Div(inv.payout, inv.investment)
                   /\ inv.roi = Div(Mul(Num(100), Sub(inv.payout, inv.investment)),
                                    inv.investment)
         /\ calcs[c].founderROI = undefined

\* ------------------------------------------------------------------------
\* C14 : setupCompany stores no company when foundersShares > totalShares
\* or when foundersShares, totalShares or initialValuation is <= 0.
\* ------------------------------------------------------------------------
RejectedCompany(c) ==
  \/ Gt(c.foundersShares, c.totalShares)
  \/ Le(c.foundersShares, Zero)
  \/ Le(c.totalShares, Zero)
  \/ Le(c.initialValuation, Zero)

C14_InvalidCompanyRejected ==
  [][\A companyData \in CompanyInputs :
       (handleCompanySetup(companyData) /\ RejectedCompany(companyData))
         => UNCHANGED company]_vars

\* ------------------------------------------------------------------------
\* C15 : addSafeNote leaves the SAFE list unchanged when amount <= 0 or
\* when the discount is outside [0, 100].
\* ------------------------------------------------------------------------
RejectedSafe(s) ==
  \/ Le(s.amount, Zero)
  \/ Lt(s.discount, Zero)
  \/ Gt(s.discount, Num(100))

C15_InvalidSafeRejected ==
  [][\A safeData \in SafeInputs :
       (handleSafeRound(safeData) /\ RejectedSafe(safeData))
         => UNCHANGED safeRounds]_vars

\* ------------------------------------------------------------------------
\* C16 : addPricedRound changes neither the round list nor a converted
\* flag when preMoneyValuation <= 0 or when an investor's amount is <= 0.
\* ------------------------------------------------------------------------
RejectedRound(r) ==
  \/ Le(r.preMoneyValuation, Zero)
  \/ \E i \in 1..Len(r.newInvestors) : Le(r.newInvestors[i].investment, Zero)

C16_InvalidRoundDataRejected ==
  [][\A roundData \in RoundInputs :
       (handlePricingRound(roundData) /\ RejectedRound(roundData))
         => UNCHANGED <<pricingRounds, safeRounds>>]_vars

\* ------------------------------------------------------------------------
\* C17 : stakeholders are neither merged nor dropped by name. In each view
\* every converted SAFE has a SAFE entry of its own, carrying its name, its
\* amount and the shares of its conversion at some round, so that the SAFE
\* entries are at least as many as the converted SAFEs; and every investor
\* of every round has an investor entry of its own. Stated for valid inputs.
\* ------------------------------------------------------------------------
RECURSIVE CountInvestors(_)
CountInvestors(rounds) ==
  IF rounds = <<>> THEN 0
  ELSE CountInvestors(Front(rounds)) + Len(rounds[Len(rounds)].newInvestors)

HasOwnSafeEntry(entries, steps, j) ==
  \E i \in 1..Len(entries) : \E k \in RoundIndexes :
    /\ entries[i][1] = safeRounds[j].investorName
    /\ entries[i][2] = ConvertedShares(pricingRounds[k], safeRounds[j], steps[k - 1].totalShares)
    /\ entries[i][3] = safeRounds[j].amount
    /\ entries[i][4] = "safe"

EntriesNotMerged(entries, steps) ==
  /\ Cardinality({i \in 1..Len(entries) : entries[i][4] = "safe"})
       >= Cardinality(ConvertedSafes)
  /\ Cardinality({i \in 1..Len(entries) : entries[i][4] = "investor"})
       = CountInvestors(pricingRounds)
  /\ \A j \in ConvertedSafes : HasOwnSafeEntry(entries, steps, j)

C17_NoMergeByName ==
  /\ (OwnShown /\ ValidInputs) =>
       EntriesNotMerged(OwnEntries(OwnNow.stakeholders), OwnSteps)
  /\ (ExitShown /\ ValidInputs) =>
       EntriesNotMerged(ExitEntries(ExitNow.stakeholders), ExitSteps)

\* ------------------------------------------------------------------------
\* The worked scenario of the specification, run through the same handlers:
\* the forms submit the scenario's company, its SAFE (with its cap, or
\* without one) and its round.
\* ------------------------------------------------------------------------
ScenarioCompany ==
  [name |-> "Acme",
   foundersShares |-> Num(8000000),
   totalShares |-> Num(10000000),
   initialValuation |-> Num(1000000 \div MoneyUnit)]

ScenarioSafe ==
  [investorName |-> "Angel",
   amount |-> Num(250000 \div MoneyUnit),
   discount |-> Num(20),
   valuationCap |-> Some(Num(5000000 \div MoneyUnit))]

ScenarioSafeInputs == {ScenarioSafe, [ScenarioSafe EXCEPT !.valuationCap = undefined]}

ScenarioRound ==
  [name |-> "Series A",
   preMoneyValuation |-> Num(8000000 \div MoneyUnit),
   investment |-> Num(2000000 \div MoneyUnit),
   newInvestors |-> << [name |-> "VC", investment |-> Num(2000000 \div MoneyUnit)] >>]

NextScenario ==
  \/ handleCompanySetup(ScenarioCompany)
  \/ \E safeData \in ScenarioSafeInputs : handleSafeRound(safeData)
  \/ handlePricingRound(ScenarioRound)
  \/ \E tab \in Tabs : setActiveTab(tab)

SpecScenario == Init /\ [][NextScenario]_vars

\* the scenario's handlers together with the two handlers of the exit tab
\* that edit the list of exit valuations
NextValuations ==
  \/ \E companyData \in CompanyInputs : handleCompanySetup(companyData)
  \/ \E safeData \in ScenarioSafeInputs : handleSafeRound(safeData)
  \/ handlePricingRound(ScenarioRound)
  \/ \E tab \in Tabs : setActiveTab(tab)
  \/ \E customValuation \in CustomValuationInputs : addCustomValuation(customValuation)
  \/ \E valuation \in ValuesOf(exitValuations) : removeValuation(valuation)

SpecValuations == Init /\ [][NextValuations]_vars

\* handler calls that are queued before a render
QueuedRoundInputs == {ScenarioRound, [ScenarioRound EXCEPT !.name = "Series B"]}

NextQueued ==
  \/ handleCompanySetup(ScenarioCompany)
  \/ \E safeData \in ScenarioSafeInputs : callHandleSafeRound(safeData)
  \/ \E roundData \in QueuedRoundInputs : callHandlePricingRound(roundData)
  \/ render

SpecQueued == Init /\ [][NextQueued]_vars

\* ------------------------------------------------------------------------
\* C18 : for Company(founders 8,000,000, total 10,000,000), one SAFE
\* (250,000, discount 20, cap 5,000,000) and one round (preMoney 8,000,000,
\* investment 2,000,000, VC 2,000,000) the snapshot has SAFE shares
\* 500,000, VC shares 2,000,000 / 0.775, totalSharesOutstanding
\* 10,000,000 + 500,000 + 2,000,000 / 0.775 and a founder ownership of
\* 100 * 8,000,000 / totalSharesOutstanding, about 61.16 %.
\* ------------------------------------------------------------------------
ScenarioReached ==
  /\ company = Some(ScenarioCompany)
  /\ Len(safeRounds) = 1
  /\ [f \in {"investorName", "amount", "discount", "valuationCap"} |-> safeRounds[1][f]]
       = ScenarioSafe
  /\ safeRounds[1].converted
  /\ pricingRounds = <<ScenarioRound>>

ScenarioShares(entries, totalShares) ==
  LET vcShares == Div(Num(2000000), Frac(775, 1000))
  IN /\ Len(entries) = 3
     /\ entries[1] = <<"Founders", Num(8000000), Zero, "founder">>
     /\ entries[2] = <<"Angel", Num(500000), Num(250000 \div MoneyUnit), "safe">>
     /\ entries[3] = <<"VC", vcShares, Num(2000000 \div MoneyUnit), "investor">>
     /\ totalShares = Add(Add(Num(10000000), Num(500000)), vcShares)

C18_WorkedScenario ==
  /\ (OwnShown /\ ScenarioReached) =>
       LET view == OwnNow
           founders == WithOwnership(view.stakeholders, view.totalShares)[1]
       IN /\ ScenarioShares(OwnEntries(view.stakeholders), view.totalShares)
          /\ founders.ownership = Div(Mul(Num(100), Num(8000000)), view.totalShares)
          /\ Lt(Frac(6115, 100), founders.ownership)
          /\ Lt(founders.ownership, Frac(6117, 100))
  /\ (ExitShown /\ ScenarioReached) =>
       LET view == ExitNow
       IN ScenarioShares(ExitEntries(view.stakeholders), view.totalShares)

\* the ownership tab shows the scenario
C18_Witness == OwnShown /\ ScenarioReached

\* ------------------------------------------------------------------------
\* C19 : rounds are processed in the order in which they were added. A step
\* that changes the round list appends one round at its end; and both views
\* price the last round on the share count that the rounds before it
\* produce, keeping the entries of those rounds as they are and in place.
\* Every round is the last one when it is added, and the list only grows at
\* its end, so this covers every round k and the rounds 1..k-1 before it.
\* ------------------------------------------------------------------------
PricedOnEarlierRounds(before, after, round, safeShares, safes) ==
  LET pricePerShare == Div(EffectivePreMoney(round, safes), before.totalShares)
      added == SubSeq(after.stakeholders, Len(before.stakeholders) + 1,
                      Len(after.stakeholders))
      investors == FilterType(added, "investor")
  IN /\ SubSeq(after.stakeholders, 1, Len(before.stakeholders)) = before.stakeholders
     /\ \A i \in DOMAIN investors :
          investors[i].shares = Div(investors[i].investment, pricePerShare)
     /\ after.totalShares
          = Add(before.totalShares, Add(safeShares, Div(round.investment, pricePerShare)))

LastRoundPricedOnEarlierRounds ==
  LET round == pricingRounds[Len(pricingRounds)]
  IN /\ OwnShown =>
          LET before == OwnFold(theCompany, safeRounds, Front(pricingRounds))
          IN PricedOnEarlierRounds(
               before, OwnNow, round,
               OwnSafeLoop(safeRounds, round, before.totalShares, before.stakeholders).safeShares,
               safeRounds)
     /\ ExitShown =>
          LET before == ExitFold(theCompany, safeRounds, Front(pricingRounds))
          IN PricedOnEarlierRounds(
               before, ExitNow, round,
               SumConvertedShares(safeRounds, round, before.totalShares),
               safeRounds)

RoundsOnlyAppended ==
  pricingRounds' # pricingRounds =>
    \E roundData \in RoundInputs : pricingRounds' = Append(pricingRounds, roundData)

C19_RoundsInInsertionOrder ==
  /\ [][RoundsOnlyAppended]_vars
  /\ []LastRoundPricedOnEarlierRounds

\* two different rounds have been added, the second after a first that
\* changed the share count, with a SAFE in the list
C19_Witness ==
  /\ ExitShown
  /\ Len(pricingRounds) = 2
  /\ pricingRounds[1].name # pricingRounds[2].name
  /\ Len(safeRounds) > 0
  /\ ExitSteps[1].totalShares # ExitSteps[0].totalShares

\* ------------------------------------------------------------------------
\* C20 : the founder stakeholder's share count equals the company's
\* foundersShares in every snapshot. In the ownership view and in the exit
\* view, before the first round and after each round, exactly one entry has
\* type founder and its shares are company.foundersShares; the same holds
\* for the list the ownership view displays, with its percentages set.
\* ------------------------------------------------------------------------
FoundersHold(entries, shares) ==
  /\ CountType(entries, "founder") = 1
  /\ \A i \in DOMAIN entries :
       entries[i].type = "founder" => entries[i].shares = shares

C20_FounderSharesConstant ==
  /\ OwnShown =>
       LET steps == OwnSteps
           last == steps[Len(pricingRounds)]
       IN /\ \A k \in 0..Len(pricingRounds) :
               FoundersHold(steps[k].stakeholders, theCompany.foundersShares)
          /\ FoundersHold(WithOwnership(last.stakeholders, last.totalShares),
                          theCompany.foundersShares)
  /\ ExitShown =>
       LET steps == ExitSteps
       IN \A k \in 0..Len(pricingRounds) :
            FoundersHold(steps[k].stakeholders, theCompany.foundersShares)

\* the exit view is shown for a company whose founders hold a part of its
\* shares, after a SAFE and two rounds
C20_Witness ==
  /\ ExitShown
  /\ theCompany.foundersShares # theCompany.totalShares
  /\ Len(safeRounds) > 0
  /\ Len(pricingRounds) = 2

\* ------------------------------------------------------------------------
\* C21 : the lists are append-only and only three steps write them. No step
\* removes or reorders a SAFE or a round, changes a field of a SAFE other
\* than converted, or resets converted from true to false. A step that adds
\* a SAFE adds exactly one, with converted = false, and changes nothing
\* else; a step that adds a round adds exactly one, at the end, and changes
\* besides it only converted flags; every other step leaves both lists as
\* they are.
\* ------------------------------------------------------------------------
SameSafeButConverted(before, after) ==
  /\ [after EXCEPT !.converted = before.converted] = before
  /\ before.converted => after.converted

ListsAppendOnly ==
  /\ Len(safeRounds') >= Len(safeRounds)
  /\ \A i \in 1..Len(safeRounds) : SameSafeButConverted(safeRounds[i], safeRounds'[i])
  /\ Len(pricingRounds') >= Len(pricingRounds)
  /\ SubSeq(pricingRounds', 1, Len(pricingRounds)) = pricingRounds

SafeAddedAlone ==
  Len(safeRounds') > Len(safeRounds) =>
    /\ Len(safeRounds') = Len(safeRounds) + 1
    /\ safeRounds'[Len(safeRounds')].converted = FALSE
    /\ SubSeq(safeRounds', 1, Len(safeRounds)) = safeRounds
    /\ UNCHANGED <<company, pricingRounds, activeTab, exitValuations>>

RoundAddedFlipsFlagsOnly ==
  Len(pricingRounds') > Len(pricingRounds) =>
    /\ Len(pricingRounds') = Len(pricingRounds) + 1
    /\ Len(safeRounds') = Len(safeRounds)
    /\ UNCHANGED <<company, activeTab, exitValuations>>

OtherStepsKeepLists ==
  Len(pricingRounds') = Len(pricingRounds) /\ Len(safeRounds') = Len(safeRounds)
    => UNCHANGED <<safeRounds, pricingRounds>>

C21_ListsAppendOnly ==
  [][/\ ListsAppendOnly
     /\ SafeAddedAlone
     /\ RoundAddedFlipsFlagsOnly
     /\ OtherStepsKeepLists]_vars

\* a SAFE has been added to a list that holds a converted SAFE, after a round
C21_Witness ==
  /\ Len(safeRounds) = 2
  /\ safeRounds[1].converted
  /\ ~safeRounds[2].converted
  /\ Len(pricingRounds) = 2

\* ------------------------------------------------------------------------
\* C22 : the company is created once and never changed afterwards. Once
\* company is not null no step changes it (adding a SAFE, adding a round,
\* changing the tab, adding or removing an exit valuation), the setup
\* handler cannot be invoked any more, and SAFEs and rounds exist only
\* when a company exists.
\* ------------------------------------------------------------------------
CompanyKept == company # null => company' = company

SetupOnlyWithoutCompany ==
  company # null => \A companyData \in CompanyInputs : ~ENABLED handleCompanySetup(companyData)

ListsNeedCompany == company = null => safeRounds = <<>> /\ pricingRounds = <<>>

C22_CompanyImmutable ==
  /\ [][CompanyKept]_vars
  /\ [](SetupOnlyWithoutCompany /\ ListsNeedCompany)

\* a company with a SAFE, a round and an edited list of exit valuations
C22_Witness ==
  /\ company # null
  /\ Len(safeRounds) > 0
  /\ Len(pricingRounds) > 0
  /\ Len(exitValuations) > Len(InitialExitValuations)
  /\ ~Includes(exitValuations, InitialExitValuations[2])

\* ------------------------------------------------------------------------
\* C23 : the list of exit valuations has no duplicate value and is in
\* strictly ascending order after any sequence of addCustomValuation and
\* removeValuation from the initial list. Adding a value of the list leaves
\* the list unchanged, adding another value puts exactly that value into
\* it, and removing a value removes exactly that value.
\* ------------------------------------------------------------------------
StrictlyAscending(valuations) ==
  \A i \in 1..Len(valuations) - 1 : Lt(valuations[i], valuations[i + 1])

AddKeepsOrPutsOne ==
  \A customValuation \in CustomValuationInputs :
    addCustomValuation(customValuation) =>
      IF customValuation \in ValuesOf(exitValuations)
      THEN exitValuations' = exitValuations
      ELSE /\ Len(exitValuations') = Len(exitValuations) + 1
           /\ ValuesOf(exitValuations') = ValuesOf(exitValuations) \cup {customValuation}

RemoveTakesOne ==
  \A valuation \in ValuesOf(exitValuations) :
    removeValuation(valuation) =>
      /\ Len(exitValuations') = Len(exitValuations) - 1
      /\ ValuesOf(exitValuations') = ValuesOf(exitValuations) \ {valuation}

C23_ExitValuationsSortedSet ==
  /\ []StrictlyAscending(exitValuations)
  /\ [][AddKeepsOrPutsOne /\ RemoveTakesOne]_vars

\* a value has been added between two values of the list, and the list's
\* first initial value has been removed
C23_Witness ==
  /\ activeTab = "exit"
  /\ \E i \in 2..Len(exitValuations) - 1 :
       exitValuations[i] = Num(25000000 \div MoneyUnit)
  /\ ~Includes(exitValuations, InitialExitValuations[1])

\* ------------------------------------------------------------------------
\* C24 : computing the ownership snapshot again from the same company, SAFE
\* list and round list gives the same value (total shares, stakeholder
\* list in the same order, trajectory), and the computation does not change
\* its inputs. A value held by the view is the value that a new computation
\* from the current inputs returns, a step that leaves a value in the view
\* leaves the three inputs as they were, and a step from one held value to
\* another keeps the value.
\* ------------------------------------------------------------------------
HeldValueIsRecomputed ==
  (ownershipData # null /\ activeTab = "ownership") =>
    ownershipData = Some(OwnershipData(theCompany, safeRounds, pricingRounds))

ComputationKeepsInputs ==
  ownershipData' # null => UNCHANGED <<company, safeRounds, pricingRounds>>

RecomputationKeepsValue ==
  (ownershipData # null /\ ownershipData' # null) => ownershipData' = ownershipData

RECURSIVE SumFieldOfType(_, _, _)
SumFieldOfType(stakeholders, field, type) ==
  IF stakeholders = <<>> THEN Zero
  ELSE LET rest == SumFieldOfType(Front(stakeholders), field, type)
           last == stakeholders[Len(stakeholders)]
       IN IF last.type # type THEN rest
          ELSE IF CountType(Front(stakeholders), type) = 0 THEN last[field]
          ELSE Add(rest, last[field])

C26_ChartDataSumsByCategory ==
  OwnShown =>
    LET stakeholders == OwnStakeholders(theCompany, safeRounds, pricingRounds)
        chart == ChartData(stakeholders)
    IN /\ \A i, j \in 1..Len(chart) : chart[i].type = chart[j].type => i = j
       /\ \A i \in 1..Len(chart) :
            /\ chart[i].type \in {"founder", "safe", "investor"}
            /\ chart[i].shares = SumFieldOfType(stakeholders, "shares", chart[i].type)
            /\ chart[i].value = SumFieldOfType(stakeholders, "ownership", chart[i].type)
            /\ chart[i].investment = SumFieldOfType(stakeholders, "investment", chart[i].type)
       /\ \A s \in 1..Len(stakeholders) :
            \E i \in 1..Len(chart) : chart[i].type = stakeholders[s].type
       /\ Add(Add(SumFieldOfType(chart, "shares", "founder"),
                  SumFieldOfType(chart, "shares", "safe")),
              SumFieldOfType(chart, "shares", "investor"))
            = SumShares(stakeholders)

\* the ownership view lists a SAFE entry and the investors of two rounds
C26_Witness ==
  /\ OwnShown
  /\ CountType(OwnNow.stakeholders, "safe") >= 1
  /\ CountType(OwnNow.stakeholders, "investor") >= 3

\* ------------------------------------------------------------------------
\* C27 : a SAFE is converted if and only if a round has been added after it.
\* While the round list is empty no SAFE is converted; the converted SAFEs
\* are the first ones of the list; a step that adds a round leaves every
\* SAFE of the list converted; a SAFE is unconverted when it is added, and
\* a step that adds no round changes no flag of a SAFE of the list.
\* ------------------------------------------------------------------------
ConvertedAreEarlierSafes ==
  /\ pricingRounds = <<>> => \A j \in SafeIndexes : ~safeRounds[j].converted
  /\ \A i, j \in SafeIndexes : (i < j /\ safeRounds[j].converted) => safeRounds[i].converted

RoundConvertsEverySafe ==
  Len(pricingRounds') > Len(pricingRounds) =>
    /\ Len(safeRounds') = Len(safeRounds)
    /\ \A j \in 1..Len(safeRounds') : safeRounds'[j].converted

OnlyRoundsConvert ==
  Len(pricingRounds') = Len(pricingRounds) =>
    /\ \A j \in SafeIndexes : safeRounds'[j].converted = safeRounds[j].converted
    /\ \A j \in (Len(safeRounds) + 1)..Len(safeRounds') : ~safeRounds'[j].converted

C27_ConvertedIffRoundAfter ==
  /\ []ConvertedAreEarlierSafes
  /\ [][RoundConvertsEverySafe /\ OnlyRoundsConvert]_vars

\* a round has been added between two SAFEs
C27_Witness ==
  /\ Len(safeRounds) = 2
  /\ Len(pricingRounds) = 1
  /\ safeRounds[1].converted
  /\ ~safeRounds[2].converted

\* ------------------------------------------------------------------------
\* C28 : within the ownership view entry k of the dilution trajectory is
\* 100 * foundersShares / (total shares after round k), and its last entry
\* is the ownership percent that the stakeholder list gives the founders,
\* also when a SAFE has been added after the last round. Stated for valid
\* inputs.
\* ------------------------------------------------------------------------
C28_DilutionMatchesSnapshot ==
  (OwnShown /\ ValidInputs) =>
    LET trajectory == dilutionData(theCompany, safeRounds, pricingRounds)
        steps == OwnSteps
        last == steps[Len(pricingRounds)]
        stakeholders == WithOwnership(last.stakeholders, last.totalShares)
    IN /\ \A k \in RoundIndexes :
            trajectory[k + 1].founderOwnership
              = Mul(Div(theCompany.foundersShares, steps[k].totalShares), Num(100))
       /\ \A i \in 1..Len(stakeholders) :
            stakeholders[i].type = "founder" =>
              trajectory[Len(pricingRounds) + 1].founderOwnership = stakeholders[i].ownership

\* ------------------------------------------------------------------------
\* C29 : the preview of a round agrees with the result of adding it. For
\* every step that adds a round, whatever rounds the list already holds,
\* the preview's totalSharesAfter, price per share and founderOwnership,
\* computed from the state before the step, are the total shares, the
\* price per share of that round and the founders' ownership percent of
\* the ownership view after the step. Stated for valid inputs.
\* ------------------------------------------------------------------------
PreviewAgrees(preview, before, after, round, safes) ==
  /\ preview.totalSharesAfter = after.totalShares
  /\ preview.preMoneyPricePerShare = PricePerShare(round, safes, before.totalShares)
  /\ \A i \in 1..Len(after.stakeholders) :
       after.stakeholders[i].type = "founder" =>
         preview.founderOwnership
           = Mul(Div(after.stakeholders[i].shares, after.totalShares), Num(100))

C29_PreviewAgreesWithResult ==
  [][\A roundData \in RoundInputs :
       (/\ handlePricingRound(roundData)
        /\ ValidInputsOf(company, safeRounds', pricingRounds'))
         => \A before \in {OwnFold(theCompany, safeRounds', pricingRounds)} :
            \A after \in {OwnFold(theCompany, safeRounds', pricingRounds')} :
              PreviewAgrees(calculations(theCompany, safeRounds, roundData),
                            before, after, roundData, safeRounds')]_vars

\* ------------------------------------------------------------------------
\* C30 : no update is lost or half applied when handler calls are queued
\* before a render. For every interleaving of calls of handleSafeRound and
\* handlePricingRound, the lists after the render are those that the calls
\* give when applied one at a time in call order, every added SAFE and
\* round being present once; and no rendered state holds a round together
\* with an unconverted SAFE that was added before it.
\* ------------------------------------------------------------------------
\* the lists after the calls, each applied to the result of the one before
RECURSIVE OneAtATime(_, _, _)
OneAtATime(safes, rounds, calls) ==
  IF calls = <<>> THEN [safeRounds |-> safes, pricingRounds |-> rounds]
  ELSE LET before == OneAtATime(safes, rounds, Front(calls))
           call == calls[Len(calls)]
       IN IF call.handler = "handleSafeRound"
          THEN [before EXCEPT
                  !.safeRounds = Append(@, [investorName |-> call.data.investorName,
                                            amount |-> call.data.amount,
                                            discount |-> call.data.discount,
                                            valuationCap |-> call.data.valuationCap,
                                            converted |-> FALSE])]
          ELSE [safeRounds |-> [i \in 1..Len(before.safeRounds) |->
                                  [before.safeRounds[i] EXCEPT !.converted = TRUE]],
                pricingRounds |-> Append(before.pricingRounds, call.data)]

RenderAppliesCallsInOrder ==
  <<safeRounds', pricingRounds'>> # <<safeRounds, pricingRounds>> =>
    \A result \in {OneAtATime(safeRounds, pricingRounds, pendingUpdates.calls)} :
      /\ safeRounds' = result.safeRounds
      /\ pricingRounds' = result.pricingRounds
      /\ Len(safeRounds') = Len(safeRounds) + CallsOf("handleSafeRound")
      /\ Len(pricingRounds') = Len(pricingRounds) + CallsOf("handlePricingRound")

C30_QueuedUpdatesNotLost ==
  /\ []ConvertedAreEarlierSafes
  /\ [][RenderAppliesCallsInOrder]_vars

\* a render has applied a SAFE call, a round call and a second SAFE call
\* that were queued together
C30_Witness ==
  /\ pendingUpdates.calls = <<>>
  /\ pendingUpdates.applied = 3
  /\ Len(safeRounds) = 2
  /\ Len(pricingRounds) = 1
  /\ safeRounds[1].converted
  /\ ~safeRounds[2].converted

====
